---- MODULE Spec2Model ----
(***************************************************************************)
(* Stage 1 of the takeover migrator (src/src/migrator/stage1.rs).          *)
(*                                                                         *)
(* stage1() checks the privilege, builds MigrateInfo and calls prepare();  *)
(* prepare() disables swap, checks the memory budget, builds the tmpfs     *)
(* root, stages the artifacts, computes the unmount plan, writes the       *)
(* Stage-2 config, bind-mounts the new init and asks init to re-exec.      *)
(* The program is sequential: pc is the position in stage1/prepare, every  *)
(* fallible call has an Err outcome next to its Ok outcome.                *)
(***************************************************************************)
EXTENDS Integers, Sequences, FiniteSets, TLC

\* ------------------------------------------------------------------ bounds
MaxNwmgr == 1       \* network-manager files held by MigrateInfo: 0..MaxNwmgr
MaxWifi == 2        \* Wi-Fi records held by MigrateInfo: 0..MaxWifi
MaxParts == 1       \* partitions of the inventory in the whole-program runs
MaxPlanParts == 3   \* partitions of the inventory in the plan-only runs
MaxFileSize == 1    \* file sizes (bytes) are drawn from 0..MaxFileSize
MaxUmountErrs == 1  \* unmounts of one cleanup that fail on their own account

\* --------------------------------------------------------- program constants
XTRA_FS_SIZE == 10 * 1024 * 1024
DO_CLEANUP == TRUE

\* ------------------------------------------------------------------- paths
\* A path is the sequence of its components; "/" is the empty sequence.
NoPath == <<"-">>
TakeoverDir == <<"TO.XXXXXXXX">>      \* the directory mktemp creates under /

\* Path::join / path_append
PathJoin(p, q) == p \o q

\* Path::starts_with: whole components of `base` lead `p`
StartsWith(p, base) ==
    /\ Len(base) <= Len(p)
    /\ SubSeq(p, 1, Len(base)) = base

\* format!("{:02}", n): decimal digits, zero-padded to width 2
RECURSIVE Digits(_)
Digits(n) == IF n < 10 THEN <<n>> ELSE Append(Digits(n \div 10), n % 10)

Fmt02(n) == IF n < 10 THEN <<0, n>> ELSE Digits(n)

\* format!("balena-{:02}", n)
BalenaName(n) == <<"balena-">> \o Fmt02(n)

\* ------------------------------------------------------------------- state
VARIABLES
    pc,            \* position in stage1 / prepare
    admin,         \* what is_admin() gives: "yes", "no", "err"
    result,        \* what stage1 returned: "none" until it returns
    prepErr,       \* the Err prepare returned ("none": not returned / Ok)
    migInfo,       \* MigrateInfo: constructed, to_dir, mounts, nwmgr_files, wifis
    swapOn,        \* host: is swap active
    kmounts,       \* host: mounts in place at or beneath the tmpfs root, in mount order
    toDirExists,   \* host: does the directory mktemp created exist
    initBound,     \* host: is the new init bind-mounted over the old init
    staged,        \* tmpfs: names present in transfer/<SYSTEM_CONNECTIONS_DIR>
    nwmgr_cfgs,    \* copy_files: the file counter
    loopIdx,       \* copy_files: entries of the current for loop already handled
    optImage,      \* Options: image  ("none": not given, "absent": no such file, "ok")
    optConfig,     \* Options: config ("none": not given, "absent": no such file, "ok")
    sizes,         \* prepare: file sizes get_required_space read
    memFree,       \* prepare: mem_free
    reqSpace,      \* prepare: req_space
    devices,       \* BlockDeviceInfo: device name -> [parent, mountpoint]
    flashTo,       \* Options: flash_to ("unread", "none", or a device name)
    flashDev,      \* prepare: flash_dev (a device name, "none" before)
    visited,       \* unmount plan: devices the for loop has handled
    umount_parts,  \* unmount plan: Vec<UmountPart>
    s2cfg,         \* the Stage-2 config file in the tmpfs root (NoCfg: not there)
    log,           \* history: the effects performed, in order
    umounts        \* history: the unmount attempts of cleanup, in order

vars == <<pc, admin, result, prepErr, migInfo, swapOn, kmounts, toDirExists, initBound,
          staged, nwmgr_cfgs, loopIdx, optImage, optConfig, sizes, memFree,
          reqSpace, devices, flashTo, flashDev, visited, umount_parts, s2cfg,
          log, umounts>>

NoSizes == [busybox |-> 0, image |-> 0, config |-> 0, nwmgr |-> 0, exe |-> 0]
NoMigInfo == [constructed |-> FALSE, to_dir |-> NoPath, mounts |-> <<>>,
              nwmgr_files |-> 0, wifis |-> 0]
NoDevices == [d \in {} |-> 0]
NoCfg == [flash_dev |-> "unwritten", umount_parts |-> <<>>]

Init ==
    /\ pc = "Start"
    /\ admin \in {"yes", "no", "err"}
    /\ result = "none"
    /\ prepErr = "none"
    /\ migInfo = NoMigInfo
    /\ swapOn = TRUE
    /\ kmounts = <<>>
    /\ toDirExists = FALSE
    /\ initBound = FALSE
    /\ staged = {}
    /\ nwmgr_cfgs = 0
    /\ loopIdx = 0
    /\ optImage \in {"none", "absent", "ok"}
    /\ optConfig \in {"none", "absent", "ok"}
    /\ sizes = NoSizes
    /\ memFree = 0
    /\ reqSpace = 0
    /\ devices = NoDevices
    /\ flashTo = "unread"
    /\ flashDev = "none"
    /\ visited = {}
    /\ umount_parts = <<>>
    /\ s2cfg = NoCfg
    /\ log = <<>>
    /\ umounts = <<>>

\* Everything but pc and the named variables stays as it is.
HostVars == <<swapOn, kmounts, toDirExists, initBound, staged>>
CopyVars == <<nwmgr_cfgs, loopIdx>>
SpaceVars == <<admin, optImage, optConfig, sizes, memFree, reqSpace>>
PlanVars == <<devices, flashTo, flashDev, visited, umount_parts, s2cfg>>

\* ------------------------------------------------------------------ stage1
\* stage1: `if !is_admin()? { return Err(Displayed) }`
\* mutant of AdminGate: the test of is_admin() inverted
AdminGateInverted(who) ==
    IF who = "err" THEN "Io"
    ELSE IF who = "yes" THEN "NotPrivileged"
    ELSE "go"

\* "go": stage1 goes on; else the Err it returns
AdminGate(who) ==
    IF who = "err" THEN "Io"
    ELSE IF who = "no" THEN "NotPrivileged"
    ELSE "go"

IsAdminCheck ==
    /\ pc = "Start"
    /\ IF AdminGate(admin) = "go"
       THEN /\ pc' = "MigInfoNew"
            /\ result' = result
       ELSE /\ pc' = "Done"
            /\ result' = AdminGate(admin)
    /\ UNCHANGED <<prepErr, migInfo, HostVars, CopyVars, SpaceVars, PlanVars,
                   log, umounts>>

\* stage1: `let mut mig_info = MigrateInfo::new(&opts)?;`
\* An Err leaves stage1 at once; the match on prepare() is not reached.
MigrateInfoNew ==
    /\ pc = "MigInfoNew"
    /\ \/ /\ \E n \in 0..MaxNwmgr, m \in 0..MaxWifi :
                migInfo' = [NoMigInfo EXCEPT !.constructed = TRUE,
                                             !.nwmgr_files = n, !.wifis = m]
          /\ pc' = "Swapoff"
          /\ result' = result
       \/ /\ pc' = "Done"
          /\ result' = "MissingInput"
          /\ migInfo' = migInfo
    /\ UNCHANGED <<prepErr, HostVars, CopyVars, SpaceVars, PlanVars, log, umounts>>

\* prepare returns Err(kind): stage1's `Err(why)` arm is next.
PrepareErr(kind) ==
    /\ pc' = "PrepErr"
    /\ prepErr' = kind

\* prepare: call(SWAPOFF_CMD, ["-a"]). `if let Ok(..)`: a command that could
\* not be launched is skipped; a non-zero status returns Err.
Swapoff ==
    /\ pc = "Swapoff"
    /\ \E out \in {"ok", "nonzero", "nolaunch"} :
          /\ IF out = "nonzero"
             THEN PrepareErr("CommandFailed")
             ELSE pc' = "MemInfo" /\ prepErr' = prepErr
          /\ swapOn' = IF out = "ok" THEN FALSE ELSE swapOn
          /\ log' = Append(log, IF out = "ok" THEN "swapoff"
                                 ELSE IF out = "nonzero" THEN "swapoff_failed"
                                 ELSE "swapoff_skipped")
    /\ UNCHANGED <<result, migInfo, kmounts, toDirExists, initBound, staged,
                   CopyVars, SpaceVars, PlanVars, umounts>>

\* prepare: `let (mem_tot, mem_free) = get_mem_info()?;`
MemFreeChoices ==
    {0} \cup {k * XTRA_FS_SIZE + d : k \in 1..2, d \in 0..(3 * MaxFileSize)}

GetMemInfo ==
    /\ pc = "MemInfo"
    /\ \/ /\ \E free \in MemFreeChoices : memFree' = free
          /\ pc' = "ReqSpace"
          /\ prepErr' = prepErr
          /\ log' = Append(log, "meminfo")
       \/ /\ PrepareErr("Io")
          /\ UNCHANGED <<memFree, log>>
    /\ UNCHANGED <<result, migInfo, HostVars, CopyVars, admin, optImage, optConfig,
                   sizes, reqSpace, PlanVars, umounts>>

\* get_required_space, the sum it returns when every input is there:
\* busybox + XTRA_FS_SIZE, image, config, the network-manager files, the
\* current executable, busybox once more.
RequiredSpace(sz) ==
    sz.busybox + XTRA_FS_SIZE + sz.image + sz.config + sz.nwmgr + sz.exe + sz.busybox

\* get_required_space(opts, mig_info): a missing or absent image or config
\* returns Err before anything else is read; a failing metadata()/current_exe()
\* returns Err too.
\* mutant of InputsPresent: the config is not looked at
InputsPresentImageOnly(img, cfg) == img = "ok"

\* get_required_space: are the image and the config given and present
InputsPresent(img, cfg) == img = "ok" /\ cfg = "ok"

GetRequiredSpace ==
    /\ pc = "ReqSpace"
    /\ IF ~InputsPresent(optImage, optConfig)
       THEN /\ PrepareErr("MissingInput")
            /\ UNCHANGED <<sizes, reqSpace>>
       ELSE \/ /\ PrepareErr("Io")
               /\ UNCHANGED <<sizes, reqSpace>>
            \/ /\ \E bb \in 1..MaxFileSize, isz \in 0..MaxFileSize,
                     csz \in 0..MaxFileSize,
                     nsz \in 0..(migInfo.nwmgr_files * MaxFileSize),
                     esz \in 1..MaxFileSize :
                     sizes' = [busybox |-> bb, image |-> isz, config |-> csz,
                               nwmgr |-> nsz, exe |-> esz]
               /\ reqSpace' = RequiredSpace(sizes')
               /\ pc' = "SpaceCheck"
               /\ prepErr' = prepErr
    /\ UNCHANGED <<result, migInfo, HostVars, CopyVars, admin, optImage, optConfig,
                   memFree, PlanVars, log, umounts>>

\* mutant of TooLittleMemory: the slack lands on the wrong side
TooLittleMemorySlackOnFree(free, req) == free + XTRA_FS_SIZE < req

\* prepare: `if mem_free < req_space + XTRA_FS_SIZE { return Err(..) }`
TooLittleMemory(free, req) == free < req + XTRA_FS_SIZE

SpaceCheck ==
    /\ pc = "SpaceCheck"
    /\ IF TooLittleMemory(memFree, reqSpace)
       THEN PrepareErr("InsufficientMemory")
       ELSE pc' = "Mktemp" /\ prepErr' = prepErr
    /\ UNCHANGED <<result, migInfo, HostVars, CopyVars, SpaceVars, PlanVars, log,
                   umounts>>

\* prepare: `let takeover_dir = mktemp(..)?; mig_info.set_to_dir(&takeover_dir);`
\* mem_free, req_space and the sizes are not read again.
Mktemp ==
    /\ pc = "Mktemp"
    /\ \/ /\ toDirExists' = TRUE
          /\ migInfo' = [migInfo EXCEPT !.to_dir = TakeoverDir]
          /\ log' = Append(log, "mktemp")
          /\ pc' = "MountRoot"
          /\ prepErr' = prepErr
       \/ /\ PrepareErr("Io")
          /\ UNCHANGED <<toDirExists, migInfo, log>>
    /\ sizes' = NoSizes
    /\ memFree' = 0
    /\ reqSpace' = 0
    /\ UNCHANGED <<result, swapOn, kmounts, initBound, staged, CopyVars, admin,
                   optImage, optConfig, PlanVars, umounts>>

\* utils::mount_fs(path, fs, fstype, mig_info), the Ok outcome: the mount is
\* made and pushed on MigrateInfo's mount stack.
MountRec(sub, fstype) ==
    [mountpoint |-> PathJoin(TakeoverDir, sub), fs_type |-> fstype]

MountFsOk(sub, fstype) ==
    /\ kmounts' = Append(kmounts, MountRec(sub, fstype))
    /\ migInfo' = [migInfo EXCEPT !.mounts = Append(@, MountRec(sub, fstype))]

\* mutant of MountStep: a mount that failed is pushed on the mount stack
MountStepRecordsFailure(from, to, sub, fstype) ==
    /\ pc = from
    /\ \/ /\ MountFsOk(sub, fstype)
          /\ pc' = to
          /\ prepErr' = prepErr
       \/ /\ PrepareErr("MountFailed")
          /\ kmounts' = kmounts
          /\ migInfo' = [migInfo EXCEPT !.mounts = Append(@, MountRec(sub, fstype))]
    /\ UNCHANGED <<result, swapOn, toDirExists, initBound, staged, CopyVars,
                   SpaceVars, PlanVars, log, umounts>>

\* One `mount_fs(..)?` of prepare: Ok goes on, Err returns from prepare.
MountStep(from, to, sub, fstype) ==
    /\ pc = from
    /\ \/ /\ MountFsOk(sub, fstype)
          /\ pc' = to
          /\ prepErr' = prepErr
       \/ /\ PrepareErr("MountFailed")
          /\ UNCHANGED <<kmounts, migInfo>>
    /\ UNCHANGED <<result, swapOn, toDirExists, initBound, staged, CopyVars,
                   SpaceVars, PlanVars, log, umounts>>

\* A fallible step of prepare that changes nothing the model tracks.
PlainStep(from, to, kind) ==
    /\ pc = from
    /\ \/ pc' = to /\ prepErr' = prepErr
       \/ PrepareErr(kind)
    /\ UNCHANGED <<result, migInfo, HostVars, CopyVars, SpaceVars, PlanVars, log,
                   umounts>>

\* A fallible step of prepare whose Ok outcome is recorded in the history.
WriteStep(from, to, event, kind) ==
    /\ pc = from
    /\ \/ /\ pc' = to
          /\ prepErr' = prepErr
          /\ log' = Append(log, event)
       \/ /\ PrepareErr(kind)
          /\ log' = log
    /\ UNCHANGED <<result, migInfo, HostVars, CopyVars, SpaceVars, PlanVars,
                   umounts>>

MountRoot == MountStep("MountRoot", "MkEtc", <<>>, "tmpfs")

\* create_dir(etc) and symlink(/proc/mounts, etc/mtab)
MkEtc == PlainStep("MkEtc", "MountProc", "Io")

MountProc == MountStep("MountProc", "MountTmp", <<"proc">>, "proc")

MountTmp == MountStep("MountTmp", "MountSys", <<"tmp">>, "tmpfs")

MountSys == MountStep("MountSys", "MountDev", <<"sys">>, "sysfs")

\* mutant of MountDev: the fallback mounts its tmpfs where mount_fs does not
\* record it
MountDevUnrecordedFallback ==
    /\ pc = "MountDev"
    /\ \/ /\ MountFsOk(<<"dev">>, "devtmpfs")
          /\ pc' = "MountPts"
       \/ /\ pc' = "CopyDev"
          /\ kmounts' = Append(kmounts, MountRec(<<"dev">>, "tmpfs"))
          /\ migInfo' = migInfo
    /\ UNCHANGED <<result, prepErr, swapOn, toDirExists, initBound, staged,
                   CopyVars, SpaceVars, PlanVars, log, umounts>>

\* `if let Err(_) = mount_fs(dev, "dev", "devtmpfs", ..)`: the Err is not
\* returned, the fallback block runs instead.
MountDev ==
    /\ pc = "MountDev"
    /\ \/ /\ MountFsOk(<<"dev">>, "devtmpfs")
          /\ pc' = "MountPts"
       \/ /\ pc' = "FallbackTmpfs"
          /\ UNCHANGED <<kmounts, migInfo>>
    /\ UNCHANGED <<result, prepErr, swapOn, toDirExists, initBound, staged,
                   CopyVars, SpaceVars, PlanVars, log, umounts>>

FallbackTmpfs == MountStep("FallbackTmpfs", "CopyDev", <<"dev">>, "tmpfs")

\* mutant of CopyDev: the outcome of the copy is not looked at
CopyDevIgnoresStatus ==
    /\ pc = "CopyDev"
    /\ pc' = "RmPts"
    /\ log' \in {log, Append(log, "cp_dev")}
    /\ UNCHANGED <<result, prepErr, migInfo, HostVars, CopyVars, SpaceVars,
                   PlanVars, umounts>>

\* call(CP_CMD, ["-a", "/dev/*", dev])?; a non-zero status returns Err
CopyDev == WriteStep("CopyDev", "RmPts", "cp_dev", "CommandFailed")

\* remove_dir_all(dev/pts) when it exists
RmPts == WriteStep("RmPts", "MountPts", "rm_pts", "Io")

MountPts == MountStep("MountPts", "MkOldRoot", <<"dev", "pts">>, "devpts")

\* create_dir_all(OLD_ROOT_MP)
MkOldRoot == PlainStep("MkOldRoot", "CfTransfer", "Io")

\* --------------------------------------------------------------- copy_files
\* create_dir(transfer) when it is not there
CfTransfer == PlainStep("CfTransfer", "CfBusybox", "Io")

\* mig_info.get_assets().write_to(takeover_dir)
CfBusybox == WriteStep("CfBusybox", "CfImage", "busybox", "CopyFailed")

\* copy(image_path, transfer/BALENA_IMAGE_NAME)
CfImage == WriteStep("CfImage", "CfConfig", "image", "CopyFailed")

\* copy(config_path, transfer/BALENA_CONFIG_PATH)
CfConfig == WriteStep("CfConfig", "CfNwDir", "config", "CopyFailed")

\* where copy_files goes once a for loop is over (or has nothing to do)
AfterWifis == "CfExe"
AfterNwFiles == IF migInfo.wifis > 0 THEN "CfWifis" ELSE AfterWifis
AfterNwDir == IF migInfo.nwmgr_files > 0 THEN "CfNwFiles" ELSE AfterNwFiles

\* `let mut nwmgr_cfgs: u64 = 0;` and create_dir_all(nwmgr_path)
CfNwDir ==
    /\ pc = "CfNwDir"
    /\ \/ /\ pc' = AfterNwDir
          /\ prepErr' = prepErr
       \/ PrepareErr("Io")
    /\ nwmgr_cfgs' = 0
    /\ loopIdx' = 0
    /\ UNCHANGED <<result, migInfo, HostVars, SpaceVars, PlanVars, log, umounts>>

\* One turn of `for source_file in mig_info.get_nwmgr_files()`:
\* nwmgr_cfgs += 1; copy(source_file, nwmgr_path/balena-{:02}).
CfNwFile ==
    /\ pc = "CfNwFiles"
    /\ loopIdx < migInfo.nwmgr_files
    /\ nwmgr_cfgs' = nwmgr_cfgs + 1
    /\ \/ /\ staged' = staged \cup {BalenaName(nwmgr_cfgs')}
          /\ log' = Append(log, "nwmgr")
          /\ loopIdx' = IF loopIdx + 1 = migInfo.nwmgr_files THEN 0 ELSE loopIdx + 1
          /\ pc' = IF loopIdx + 1 = migInfo.nwmgr_files THEN AfterNwFiles ELSE pc
          /\ prepErr' = prepErr
       \/ /\ PrepareErr("CopyFailed")
          /\ UNCHANGED <<staged, log, loopIdx>>
    /\ UNCHANGED <<result, migInfo, swapOn, kmounts, toDirExists, initBound,
                   SpaceVars, PlanVars, umounts>>

\* WifiConfig::create_nwmgr_file(base_path, index): the record is rendered into
\* the file that takes the number after `index`.
WifiFileName(index) == BalenaName(index + 1)

\* the `index` argument of one turn of `for wifi_config in mig_info.get_wifis()`:
\* `wifi_config.create_nwmgr_file(&nwmgr_path, nwmgr_cfgs)?`
WifiIndexArg(counter, turn) == counter

\* One turn of that loop. nwmgr_cfgs is passed by value and not assigned.
CfWifi ==
    /\ pc = "CfWifis"
    /\ loopIdx < migInfo.wifis
    /\ \/ /\ staged' = staged \cup {WifiFileName(WifiIndexArg(nwmgr_cfgs, loopIdx))}
          /\ log' = Append(log, "wifi")
          /\ loopIdx' = IF loopIdx + 1 = migInfo.wifis THEN 0 ELSE loopIdx + 1
          /\ pc' = IF loopIdx + 1 = migInfo.wifis THEN AfterWifis ELSE pc
          /\ prepErr' = prepErr
       \/ /\ PrepareErr("CopyFailed")
          /\ UNCHANGED <<staged, log, loopIdx>>
    /\ UNCHANGED <<result, migInfo, swapOn, kmounts, toDirExists, initBound,
                   nwmgr_cfgs, SpaceVars, PlanVars, umounts>>

\* current_exe() and copy(curr_exe, takeover_dir/takeover); copy_files returns Ok
CfExe == WriteStep("CfExe", "WriteShim", "takeover", "CopyFailed")

\* read_link(/proc/self/fd/1), read_link(/proc/1/exe),
\* Assets::write_stage2_script(takeover_dir, new_init_path, tty)
WriteShim == WriteStep("WriteShim", "BlockDev", "shim", "Io")

\* ------------------------------------------------------ block-device inventory
\* BlockDeviceInfo: device name -> Device. A disk has no parent and no mount;
\* a partition has a parent disk and may be mounted. The first partition is
\* the one mounted at "/", and its parent is the root device.
Disks == {"sda", "sdb"}
PartNames == <<"p1", "p2", "p3", "p4", "p5", "p6">>
PartFs == [p1 |-> "ext4", p2 |-> "vfat", p3 |-> "btrfs", p4 |-> "xfs",
           p5 |-> "ext3", p6 |-> "ext2"]
Parts(k) == {PartNames[i] : i \in 1..k}
RootMount == <<>>
MountPoints == {<<"a">>, <<"a", "b">>, <<"a", "b", "c">>, <<"d">>}

DiskRec == [parent |-> "none", mountpoint |-> NoPath, fs_type |-> "none"]

Inventory(k, pa, mt) ==
    [d \in Disks \cup Parts(k) |->
        IF d \in Disks THEN DiskRec
        ELSE IF d = PartNames[1]
        THEN [parent |-> "sda", mountpoint |-> RootMount, fs_type |-> PartFs[d]]
        ELSE [parent |-> pa[d], mountpoint |-> mt[d], fs_type |-> PartFs[d]]]

\* every inventory with k partitions; no two partitions share a mount point
Inventories(k) ==
    LET others == Parts(k) \ {PartNames[1]}
        mounts == {mt \in [others -> {NoPath} \cup MountPoints] :
                      \A x, y \in others :
                          (x # y /\ mt[x] # NoPath) => mt[x] # mt[y]}
    IN  {Inventory(k, pa, mt) : pa \in [others -> Disks], mt \in mounts}

\* BlockDeviceInfo::get_root_device(): the device that owns the partition
\* mounted at "/"
RootDevice(devs) ==
    devs[CHOOSE d \in DOMAIN devs : devs[d].mountpoint = RootMount].parent

\* prepare: `let block_dev_info = BlockDeviceInfo::new()?;`
BlockDev ==
    /\ pc = "BlockDev"
    /\ \/ /\ \E inv \in Inventories(MaxParts) : devices' = inv
          /\ pc' = "SelectFlash"
          /\ prepErr' = prepErr
       \/ /\ PrepareErr("Io")
          /\ devices' = devices
    /\ UNCHANGED <<result, migInfo, HostVars, CopyVars, SpaceVars, flashTo,
                   flashDev, visited, umount_parts, s2cfg, log, umounts>>

\* mutant of FlashDevice: an unknown --flash-to falls back to the root device
FlashDeviceFallsBack(devs, flash_to) ==
    IF flash_to \in DOMAIN devs THEN flash_to ELSE RootDevice(devs)

\* prepare, `let flash_dev = ..`: the inventory entry --flash-to names, the
\* root device without --flash-to, "none" when --flash-to names no entry.
FlashDevice(devs, flash_to) ==
    IF flash_to = "none" THEN RootDevice(devs)
    ELSE IF flash_to \in DOMAIN devs THEN flash_to
    ELSE "none"

SelectFlash ==
    /\ pc = "SelectFlash"
    /\ \E ft \in {"none", "absent"} \cup Disks :
          /\ flashTo' = ft
          /\ flashDev' = FlashDevice(devices, ft)
          /\ IF flashDev' = "none"
             THEN PrepareErr("MissingInput")
             ELSE pc' = "CheckFlash" /\ prepErr' = prepErr
    /\ UNCHANGED <<result, migInfo, HostVars, CopyVars, SpaceVars, devices,
                   visited, umount_parts, s2cfg, log, umounts>>

\* prepare: `if !file_exists(flash_dev.get_dev_path()) { return Err(..) }`
CheckFlash ==
    /\ pc = "CheckFlash"
    /\ \/ /\ pc' = "Plan"
          /\ prepErr' = prepErr
          /\ log' = log
       \/ /\ PrepareErr("MissingInput")
          /\ log' = Append(log, "flash_dev_path_absent")
    /\ visited' = {}
    /\ umount_parts' = <<>>
    /\ UNCHANGED <<result, migInfo, HostVars, CopyVars, SpaceVars, devices,
                   flashTo, flashDev, s2cfg, umounts>>

\* ------------------------------------------------------------- unmount plan
UmountPart(devs, d) ==
    [dev_name |-> d, mountpoint |-> devs[d].mountpoint, fs_type |-> devs[d].fs_type]

\* mutant of InsertPos: the two sides of starts_with swapped
InsertPosSwapped(parts, mount) ==
    LET hits == {i \in 1..Len(parts) : StartsWith(mount, parts[i].mountpoint)}
    IN  IF hits = {} THEN 0 ELSE CHOOSE i \in hits : \A j \in hits : i <= j

\* the first index whose entry's mount point starts with `mount`; 0: none
InsertPos(parts, mount) ==
    LET hits == {i \in 1..Len(parts) : StartsWith(parts[i].mountpoint, mount)}
    IN  IF hits = {} THEN 0 ELSE CHOOSE i \in hits : \A j \in hits : i <= j

\* Vec::insert(idx, part) in 0-based terms: `part` lands before parts[pos]
InsertAt(parts, pos, part) ==
    SubSeq(parts, 1, pos - 1) \o <<part>> \o SubSeq(parts, pos, Len(parts))

\* mutant of PlanInsert: every entry is pushed
PlanInsertAlwaysPush(parts, part) == Append(parts, part)

\* the body of `if let Some(mount) = device.get_mountpoint()`: insert before
\* the first hit, push when there is none
PlanInsert(parts, part) ==
    LET pos == InsertPos(parts, part.mountpoint)
    IN  IF pos = 0 THEN Append(parts, part) ELSE InsertAt(parts, pos, part)

\* mutant of IsFlashPartition: the parent's name is not compared
IsFlashPartitionAnyDisk(devs, flash, d) ==
    /\ devs[d].parent # "none"
    /\ devs[d].mountpoint # NoPath

\* is `d` a mounted partition of the flash device
IsFlashPartition(devs, flash, d) ==
    /\ devs[d].parent # "none"
    /\ devs[d].parent = flash
    /\ devs[d].mountpoint # NoPath

\* one turn of `for (_dev_path, device) in block_dev_info.get_devices()`
PlanVisit(parts, devs, flash, d) ==
    IF IsFlashPartition(devs, flash, d)
    THEN PlanInsert(parts, UmountPart(devs, d))
    ELSE parts

\* The map is walked in an order the program does not fix.
PlanStep ==
    /\ pc = "Plan"
    /\ \E d \in DOMAIN devices \ visited :
          /\ umount_parts' = PlanVisit(umount_parts, devices, flashDev, d)
          /\ visited' = visited \cup {d}
          /\ pc' = IF visited' = DOMAIN devices THEN "Reverse" ELSE pc
    /\ UNCHANGED <<result, prepErr, migInfo, HostVars, CopyVars, SpaceVars,
                   devices, flashTo, flashDev, s2cfg, log, umounts>>

\* Vec::reverse
Reverse(s) == [i \in 1..Len(s) |-> s[Len(s) + 1 - i]]

\* mutant of PlanReverse: the config is not written before the bind-mount
PlanReverseSkipsCfg ==
    /\ pc = "Reverse"
    /\ umount_parts' = Reverse(umount_parts)
    /\ pc' = "Chdir"
    /\ UNCHANGED <<result, prepErr, migInfo, HostVars, CopyVars, SpaceVars,
                   devices, flashTo, flashDev, visited, s2cfg, log, umounts>>

\* prepare: `umount_parts.reverse();`
PlanReverse ==
    /\ pc = "Reverse"
    /\ umount_parts' = Reverse(umount_parts)
    /\ pc' = "WriteCfg"
    /\ UNCHANGED <<result, prepErr, migInfo, HostVars, CopyVars, SpaceVars,
                   devices, flashTo, flashDev, visited, s2cfg, log, umounts>>

\* prepare: build Stage2Config, open the file (create), serialize, write.
\* A failure after the open leaves an empty file behind.
Stage2Config(flash, parts) == [flash_dev |-> flash, umount_parts |-> parts]

WriteCfg ==
    /\ pc = "WriteCfg"
    /\ \E out \in {"ok", "open_err", "serialize_err", "write_err"} :
          /\ s2cfg' = IF out = "ok" THEN Stage2Config(flashDev, umount_parts)
                      ELSE IF out = "open_err" THEN s2cfg
                      ELSE [flash_dev |-> "none", umount_parts |-> <<>>]
          /\ IF out = "ok"
             THEN /\ pc' = "Chdir"
                  /\ prepErr' = prepErr
                  /\ log' = Append(log, "s2cfg")
             ELSE /\ PrepareErr(IF out = "serialize_err" THEN "Serialization" ELSE "Io")
                  /\ log' = log
    /\ UNCHANGED <<result, migInfo, HostVars, CopyVars, SpaceVars, devices,
                   flashTo, flashDev, visited, umount_parts, umounts>>

\* ------------------------------------------------------------- init swapper
\* set_current_dir(takeover_dir)
Chdir == WriteStep("Chdir", "BindMount", "chdir", "Io")

\* call(MOUNT_CMD, ["--bind", new_init_path, old_init_path])?; a non-zero
\* status returns Err
BindMount ==
    /\ pc = "BindMount"
    /\ \E out \in {"ok", "nonzero", "nolaunch"} :
          /\ initBound' = (out = "ok")
          /\ log' = Append(log, IF out = "ok" THEN "bind" ELSE "bind_failed")
          /\ IF out = "ok"
             THEN pc' = "Telinit" /\ prepErr' = prepErr
             ELSE PrepareErr("CommandFailed")
    /\ UNCHANGED <<result, migInfo, swapOn, kmounts, toDirExists, staged,
                   CopyVars, SpaceVars, PlanVars, umounts>>

\* what prepare does with the outcome of call(TELINIT_CMD, ["u"]): "ok" when
\* it returns Ok(()), else the kind of the Err it returns
TelinitResult(out) == IF out = "ok" THEN "ok" ELSE "CommandFailed"

Telinit ==
    /\ pc = "Telinit"
    /\ \E out \in {"ok", "nonzero", "nolaunch"} :
          /\ log' = Append(log, IF out = "ok" THEN "telinit" ELSE "telinit_failed")
          /\ IF TelinitResult(out) = "ok"
             THEN pc' = "PrepOk" /\ prepErr' = prepErr
             ELSE PrepareErr(TelinitResult(out))
    /\ UNCHANGED <<result, migInfo, HostVars, CopyVars, SpaceVars, PlanVars,
                   umounts>>

\* ------------------------------------------------- stage1, after prepare
\* the Ok arm: Logger::flush(); sync(); sleep(10 s); Ok(())
Stage1Step(from, to, event) ==
    /\ pc = from
    /\ pc' = to
    /\ log' = Append(log, event)
    /\ result' = IF to = "Done" THEN "ok" ELSE result
    /\ UNCHANGED <<prepErr, migInfo, HostVars, CopyVars, SpaceVars, PlanVars,
                   umounts>>

\* mutant of LoggerFlush: the Ok arm goes from the flush to the sleep
LoggerFlushSkipsSync == Stage1Step("PrepOk", "Sleep", "flush")

LoggerFlush == Stage1Step("PrepOk", "Sync", "flush")

Sync == Stage1Step("Sync", "Sleep", "sync")

Sleep == Stage1Step("Sleep", "Done", "sleep")

\* mutant of ErrArm: the error is returned without umount_all
ErrArmNoCleanup ==
    /\ pc = "PrepErr"
    /\ pc' = "ReturnErr"
    /\ sizes' = NoSizes
    /\ memFree' = 0
    /\ reqSpace' = 0
    /\ UNCHANGED <<result, prepErr, migInfo, HostVars, CopyVars, admin, optImage,
                   optConfig, PlanVars, log, umounts>>

\* mutant of ErrArm: the cleanup turns swap back on
ErrArmSwapon ==
    /\ pc = "PrepErr"
    /\ pc' = IF DO_CLEANUP THEN "Umount" ELSE "ReturnErr"
    /\ log' = IF DO_CLEANUP THEN Append(log, "umount_all") ELSE log
    /\ swapOn' = TRUE
    /\ sizes' = NoSizes
    /\ memFree' = 0
    /\ reqSpace' = 0
    /\ UNCHANGED <<result, prepErr, migInfo, kmounts, toDirExists, initBound,
                   staged, CopyVars, admin, optImage, optConfig, PlanVars, umounts>>

\* the Err arm: `if DO_CLEANUP { mig_info.umount_all(); }`
\* prepare has returned: its mem_free, req_space and sizes are gone.
ErrArm ==
    /\ pc = "PrepErr"
    /\ pc' = IF DO_CLEANUP THEN "Umount" ELSE "ReturnErr"
    /\ log' = IF DO_CLEANUP THEN Append(log, "umount_all") ELSE log
    /\ sizes' = NoSizes
    /\ memFree' = 0
    /\ reqSpace' = 0
    /\ UNCHANGED <<result, prepErr, migInfo, HostVars, CopyVars, admin, optImage,
                   optConfig, PlanVars, umounts>>

\* the mounts in place strictly beneath `mp`
MountsBeneath(mp) ==
    {i \in 1..Len(kmounts) :
        StartsWith(kmounts[i].mountpoint, mp) /\ kmounts[i].mountpoint # mp}

\* the kernel's mounts with the topmost mount at `mp` gone
WithoutMount(mp) ==
    LET at == {i \in 1..Len(kmounts) : kmounts[i].mountpoint = mp}
        top == CHOOSE i \in at : \A j \in at : j <= i
    IN  IF at = {} THEN kmounts
        ELSE SubSeq(kmounts, 1, top - 1) \o SubSeq(kmounts, top + 1, Len(kmounts))

\* how many unmount attempts have failed on their own account so far (not
\* because the mount point was busy)
NumFailed(attempts) ==
    Cardinality({i \in 1..Len(attempts) : ~attempts[i].ok /\ ~attempts[i].busy})

\* mutant of UmountOne: the mounts are taken in the order they were made
UmountOneFifo ==
    /\ pc = "Umount"
    /\ migInfo.mounts # <<>>
    /\ LET top == migInfo.mounts[1]
       IN  /\ migInfo' = [migInfo EXCEPT !.mounts = Tail(@)]
           /\ \E ok \in (IF NumFailed(umounts) < MaxUmountErrs THEN BOOLEAN ELSE {TRUE}) :
                 LET busy == MountsBeneath(top.mountpoint) # {}
                     done == ok /\ ~busy
                 IN  /\ kmounts' = IF done THEN WithoutMount(top.mountpoint) ELSE kmounts
                     /\ umounts' = Append(umounts, [mountpoint |-> top.mountpoint,
                                                    ok |-> done, busy |-> busy])
                     /\ log' = Append(log, IF done THEN "umount" ELSE "umount_failed")
    /\ UNCHANGED <<pc, result, prepErr, swapOn, toDirExists, initBound, staged,
                   CopyVars, SpaceVars, PlanVars>>

\* MigrateInfo::umount_all, one turn: pop the mount stack and unmount what
\* was popped; an Err of the unmount is logged and swallowed. The kernel
\* refuses to unmount beneath other mounts.
UmountOne ==
    /\ pc = "Umount"
    /\ migInfo.mounts # <<>>
    /\ LET top == migInfo.mounts[Len(migInfo.mounts)]
       IN  /\ migInfo' = [migInfo EXCEPT !.mounts = SubSeq(@, 1, Len(@) - 1)]
           /\ \E ok \in (IF NumFailed(umounts) < MaxUmountErrs THEN BOOLEAN ELSE {TRUE}) :
                 LET busy == MountsBeneath(top.mountpoint) # {}
                     done == ok /\ ~busy
                 IN  /\ kmounts' = IF done THEN WithoutMount(top.mountpoint) ELSE kmounts
                     /\ umounts' = Append(umounts, [mountpoint |-> top.mountpoint,
                                                    ok |-> done, busy |-> busy])
                     /\ log' = Append(log, IF done THEN "umount" ELSE "umount_failed")
    /\ UNCHANGED <<pc, result, prepErr, swapOn, toDirExists, initBound, staged,
                   CopyVars, SpaceVars, PlanVars>>

\* MigrateInfo::umount_all, after the loop: remove the tmpfs root directory
\* when one was recorded; an Err is logged and swallowed. A directory that
\* still carries a mount cannot be removed.
RemoveToDir ==
    /\ pc = "Umount"
    /\ migInfo.mounts = <<>>
    /\ IF migInfo.to_dir = NoPath
       THEN UNCHANGED <<toDirExists, log>>
       ELSE \E ok \in BOOLEAN :
               LET busy == kmounts # <<>>
                   done == ok /\ ~busy
               IN  /\ toDirExists' = IF done THEN FALSE ELSE toDirExists
                   /\ log' = Append(log, IF done THEN "rmdir"
                                         ELSE IF busy THEN "rmdir_busy"
                                         ELSE "rmdir_failed")
    /\ pc' = "ReturnErr"
    /\ UNCHANGED <<result, prepErr, migInfo, swapOn, kmounts, initBound, staged,
                   CopyVars, SpaceVars, PlanVars, umounts>>

\* the Err arm: `return Err(why);`
ReturnErr ==
    /\ pc = "ReturnErr"
    /\ pc' = "Done"
    /\ result' = prepErr
    /\ UNCHANGED <<prepErr, migInfo, HostVars, CopyVars, SpaceVars, PlanVars,
                   log, umounts>>

\* ------------------------------------------------------------ specification
Next ==
    \/ IsAdminCheck \/ MigrateInfoNew
    \/ Swapoff \/ GetMemInfo \/ GetRequiredSpace \/ SpaceCheck
    \/ Mktemp \/ MountRoot \/ MkEtc \/ MountProc \/ MountTmp \/ MountSys
    \/ MountDev \/ FallbackTmpfs \/ CopyDev \/ RmPts \/ MountPts \/ MkOldRoot
    \/ CfTransfer \/ CfBusybox \/ CfImage \/ CfConfig \/ CfNwDir \/ CfNwFile
    \/ CfWifi \/ CfExe \/ WriteShim
    \/ BlockDev \/ SelectFlash \/ CheckFlash \/ PlanStep \/ PlanReverse
    \/ WriteCfg \/ Chdir \/ BindMount \/ Telinit
    \/ LoggerFlush \/ Sync \/ Sleep
    \/ ErrArm \/ UmountOne \/ RemoveToDir \/ ReturnErr

Spec == Init /\ [][Next]_vars

\* ------------------------------------------- the unmount plan on its own
\* prepare at line 357, after a run without network files on a kernel with
\* devtmpfs, for every inventory of MaxPlanParts partitions and every
\* --flash-to that names one of its devices (or none).
StagingMounts ==
    <<MountRec(<<>>, "tmpfs"), MountRec(<<"proc">>, "proc"),
      MountRec(<<"tmp">>, "tmpfs"), MountRec(<<"sys">>, "sysfs"),
      MountRec(<<"dev">>, "devtmpfs"), MountRec(<<"dev", "pts">>, "devpts")>>

InitPlan ==
    /\ pc = "Plan"
    /\ admin = "yes"
    /\ result = "none"
    /\ prepErr = "none"
    /\ migInfo = [constructed |-> TRUE, to_dir |-> TakeoverDir,
                  mounts |-> StagingMounts, nwmgr_files |-> 0, wifis |-> 0]
    /\ swapOn = FALSE
    /\ kmounts = StagingMounts
    /\ toDirExists = TRUE
    /\ initBound = FALSE
    /\ staged = {}
    /\ nwmgr_cfgs = 0
    /\ loopIdx = 0
    /\ optImage = "ok"
    /\ optConfig = "ok"
    /\ sizes = NoSizes
    /\ memFree = 0
    /\ reqSpace = 0
    /\ devices \in Inventories(MaxPlanParts)
    /\ flashTo \in {"none"} \cup DOMAIN devices
    /\ flashDev = FlashDevice(devices, flashTo)
    /\ visited = {}
    /\ umount_parts = <<>>
    /\ s2cfg = NoCfg
    /\ log = <<"swapoff", "meminfo", "mktemp", "busybox", "image", "config",
               "takeover", "shim">>
    /\ umounts = <<>>

NextPlan == PlanStep \/ PlanReverse \/ WriteCfg

SpecPlan == InitPlan /\ [][NextPlan]_vars

\* ------------------------------------------------------------------ history
Did(event) == \E i \in 1..Len(log) : log[i] = event

PrepareEntered == log # <<>>
PrepareReturned ==
    /\ PrepareEntered
    /\ pc \in {"PrepErr", "Umount", "ReturnErr", "PrepOk", "Sync", "Sleep", "Done"}
CfgWritten == s2cfg.flash_dev \notin {"unwritten", "none"}
NothingStaged ==
    /\ migInfo.to_dir = NoPath
    /\ migInfo.mounts = <<>>
    /\ kmounts = <<>>
    /\ ~toDirExists
    /\ ~Did("mktemp")
TmpfsGone == kmounts = <<>> /\ ~toDirExists
\* the kernel carried out every unmount of a mount point with no mount beneath
\* it, and the removal of the directory once it carried no mount
CleanupUnhindered ==
    /\ \A i \in 1..Len(umounts) : umounts[i].ok \/ umounts[i].busy
    /\ ~Did("rmdir_failed")

\* --------------------------------------------------------------- the claims
\* C1: the unmount plan written into the Stage-2 config is deepest-first: for
\* positions i < j the mount point of entry i is not a path-component prefix
\* of the mount point of entry j.
C1_PlanDeepestFirst ==
    CfgWritten =>
        \A i, j \in 1..Len(s2cfg.umount_parts) :
            i < j => ~StartsWith(s2cfg.umount_parts[j].mountpoint,
                                 s2cfg.umount_parts[i].mountpoint)

\* C1 witness: a written plan of three nested mount points, deepest first
C1_Witness ==
    /\ CfgWritten
    /\ Len(s2cfg.umount_parts) = 3
    /\ s2cfg.umount_parts[3].mountpoint = RootMount
    /\ StartsWith(s2cfg.umount_parts[1].mountpoint, s2cfg.umount_parts[2].mountpoint)

\* C2: once the init bind-mount is in place, stage1 does not take the
\* cleanup branch and its only outcome is Ok.
C2_HandoffOnlyDoneOk ==
    initBound =>
        /\ pc \notin {"PrepErr", "Umount", "ReturnErr"}
        /\ pc = "Done" => result = "ok"

\* C3: after copy_files succeeded with N network-manager files and M Wi-Fi
\* records, the staged directory holds exactly balena-01 .. balena-(N+M).
C3_NumberingNoGaps ==
    Did("takeover") =>
        staged = {BalenaName(k) : k \in 1..(migInfo.nwmgr_files + migInfo.wifis)}

ArtifactBytes(sz) == 2 * sz.busybox + sz.image + sz.config + sz.nwmgr + sz.exe

SpaceKnown == sizes # NoSizes /\ pc # "SpaceCheck"

\* C5: with free memory below the required size plus the slack, prepare
\* returns the InsufficientMemory error and has created no directory and made
\* no mount.
C5_SpaceLaw ==
    (SpaceKnown /\ memFree < ArtifactBytes(sizes) + XTRA_FS_SIZE) =>
        /\ prepErr = "InsufficientMemory"
        /\ pc = "PrepErr"
        /\ NothingStaged

\* C5 witness: prepare has just returned the error, with free memory above
\* the artifact bytes but below artifact bytes plus slack
C5_Witness ==
    /\ pc = "PrepErr"
    /\ prepErr = "InsufficientMemory"
    /\ memFree > ArtifactBytes(sizes)
    /\ memFree < ArtifactBytes(sizes) + XTRA_FS_SIZE
    /\ NothingStaged

\* C6: with the image or the config not given or not there, prepare creates
\* no directory and makes no mount, and returns an Err: the MissingInput one
\* as soon as it got as far as get_required_space.
C6_PreconditionGate ==
    (optImage # "ok" \/ optConfig # "ok") =>
        /\ NothingStaged
        /\ PrepareReturned =>
              /\ prepErr # "none"
              /\ Did("meminfo") => prepErr = "MissingInput"
        /\ pc \notin {"SpaceCheck", "Mktemp", "PrepOk", "Sync", "Sleep"}

\* C6 witness: prepare returned MissingInput for a config path that is absent
C6_Witness ==
    /\ pc = "PrepErr"
    /\ prepErr = "MissingInput"
    /\ optImage = "ok"
    /\ optConfig = "absent"

\* C7: invoked by a non-root user, stage1 goes from Start to Done with
\* NotPrivileged and nothing else happens.
C7_NonRootNoEffects ==
    admin = "no" =>
        /\ pc \in {"Start", "Done"}
        /\ pc = "Done" => result = "NotPrivileged"
        /\ migInfo = NoMigInfo
        /\ log = <<>>
        /\ umounts = <<>>
        /\ swapOn
        /\ NothingStaged
        /\ ~initBound
        /\ s2cfg = NoCfg

\* C7 witness: stage1 has returned to a non-root user
C7_Witness == admin = "no" /\ pc = "Done" /\ result = "NotPrivileged"

\* the ways prepare leaves at the choice of the flash device
UnknownFlashTo == flashTo \notin ({"unread", "none"} \cup DOMAIN devices)
FlashRefused == UnknownFlashTo \/ Did("flash_dev_path_absent")

\* C8, the part both readings share: a written config names the root device
\* without --flash-to and the inventory entry of --flash-to with it; a
\* --flash-to unknown to the inventory, or a device path that is not there,
\* makes prepare return MissingInput with no config written and no bind-mount
\* issued.
C8_FlashGate ==
    /\ CfgWritten =>
          /\ s2cfg.flash_dev \in DOMAIN devices
          /\ s2cfg.flash_dev = IF flashTo = "none" THEN RootDevice(devices) ELSE flashTo
    /\ FlashRefused =>
          /\ prepErr = "MissingInput"
          /\ s2cfg = NoCfg
          /\ ~Did("bind") /\ ~Did("bind_failed") /\ ~initBound
          /\ pc \in {"PrepErr", "Umount", "ReturnErr", "Done"}
          /\ pc \in {"Umount", "ReturnErr", "Done"} => Did("umount_all")

C9_HandoffOrder ==
    LET artifacts == {"busybox", "image", "config", "nwmgr", "wifi", "takeover",
                      "shim"}
        steps == 1..Len(log)
    IN  \A i \in steps :
          /\ log[i] = "s2cfg" =>
                /\ \A j \in steps :
                      /\ log[j] = "s2cfg" => j = i
                      /\ log[j] \in artifacts => j < i
                /\ \A e \in artifacts \ {"nwmgr", "wifi"} : \E j \in 1..(i - 1) : log[j] = e
                /\ Cardinality({j \in steps : log[j] = "nwmgr"}) = migInfo.nwmgr_files
                /\ Cardinality({j \in steps : log[j] = "wifi"}) = migInfo.wifis
                /\ CfgWritten
          /\ log[i] \in {"bind", "bind_failed"} =>
                \E c \in 1..(i - 1) : log[c] = "s2cfg"
          /\ log[i] \in {"telinit", "telinit_failed"} =>
                /\ \E b \in 1..(i - 1) : log[b] = "bind"
                /\ \A b \in (i + 1)..Len(log) : log[b] # "bind"

\* C9 witness: telinit was called in a run that staged network files and
\* Wi-Fi records
C9_Witness ==
    /\ Did("telinit")
    /\ migInfo.nwmgr_files = 1
    /\ migInfo.wifis = 2

\* C10 as stated: every failure after the privilege check passed goes
\* through the cleanup before stage1 returns, and stage1 returns that error.
C10_EveryFailureCleansUp ==
    (pc = "Done" /\ admin = "yes" /\ result # "ok") =>
        /\ Did("umount_all")
        /\ result = prepErr

\* C10 as amended: every failure inside prepare goes through the cleanup
\* before stage1 returns, and stage1 returns the error prepare returned; a
\* failure of MigrateInfo::new is returned at once, without cleanup.
C10_PrepareFailureCleansUp ==
    /\ (PrepareEntered /\ prepErr # "none") =>
          /\ pc \in {"PrepErr", "Umount", "ReturnErr", "Done"}
          /\ pc \in {"Umount", "ReturnErr", "Done"} => Did("umount_all")
          /\ pc = "Done" => result = prepErr
    /\ (PrepareEntered /\ pc = "Done" /\ result # "ok") => prepErr # "none"
    /\ (pc = "Done" /\ ~PrepareEntered) =>
          /\ result \notin {"ok", "none"}
          /\ ~Did("umount_all")
          /\ umounts = <<>>
          /\ prepErr = "none"

\* C10 witness: stage1 returned the CopyFailed error of prepare after a cleanup
C10_Witness ==
    /\ pc = "Done"
    /\ result = "CopyFailed"
    /\ Did("umount_all")
    /\ Len(umounts) = 6

\* the positions of an event in the history
At(event) == {i \in 1..Len(log) : log[i] = event}

\* stage1 is in, or has returned from, the Ok arm of its match on prepare()
InOkArm == pc \in {"PrepOk", "Sync", "Sleep"} \/ (pc = "Done" /\ result = "ok")

\* C11: after prepare returned Ok no recorded mount is unmounted and the
\* tmpfs root stays; stage1 flushes the log, syncs, sleeps, in that order and
\* once each, and returns Ok; sync and sleep never happen after prepare
\* returned Err.
C11_NoCleanupAfterOk ==
    /\ InOkArm =>
          /\ prepErr = "none"
          /\ umounts = <<>>
          /\ \A i \in 1..Len(log) :
                log[i] \notin {"umount_all", "umount", "umount_failed", "rmdir",
                               "rmdir_busy", "rmdir_failed"}
          /\ migInfo.mounts = kmounts
          /\ Len(kmounts) = 6
          /\ toDirExists
          /\ log[Len(log)] = (IF pc = "PrepOk" THEN "telinit"
                              ELSE IF pc = "Sync" THEN "flush"
                              ELSE IF pc = "Sleep" THEN "sync"
                              ELSE "sleep")
    /\ \A i \in 1..Len(log) :
          /\ log[i] = "telinit" => InOkArm
          /\ log[i] \in {"flush", "sync", "sleep"} =>
                /\ InOkArm
                /\ prepErr = "none"
                /\ i > 1
                /\ log[i - 1] = (IF log[i] = "flush" THEN "telinit"
                                 ELSE IF log[i] = "sync" THEN "flush"
                                 ELSE "sync")
    /\ prepErr # "none" => \A i \in 1..Len(log) : log[i] \notin {"sync", "sleep"}

\* C11 witness: stage1 has returned Ok after the sleep, the six mounts in place
C11_Witness ==
    /\ pc = "Done"
    /\ result = "ok"
    /\ Did("sleep")
    /\ Len(kmounts) = 6
    /\ toDirExists

\* C12: when swapoff cannot be launched, or runs and returns a non-zero
\* status, prepare returns an Err before it reads the memory figures and
\* before any directory or mount is created.
C12_SwapoffFailureFatal ==
    (At("swapoff_failed") # {} \/ At("swapoff_skipped") # {}) =>
        /\ prepErr # "none"
        /\ pc \in {"PrepErr", "Umount", "ReturnErr", "Done"}
        /\ At("meminfo") = {}
        /\ NothingStaged

\* C13: the space check fails exactly when the free memory is below the
\* bytes of the artifacts plus 10 MiB, the slack counted once.
C13_SlackCountedOnce ==
    SpaceKnown =>
        ((prepErr = "InsufficientMemory")
            <=> (memFree < ArtifactBytes(sizes) + 10 * 1024 * 1024))

\* the mount points of prepare beneath the tmpfs root, in the order of its
\* mount_fs calls, and how many of them are made when prepare is at `at`
MountOrder == <<<<>>, <<"proc">>, <<"tmp">>, <<"sys">>, <<"dev">>, <<"dev", "pts">>>>
MountsMadeAt(at) ==
    IF at \in {"Start", "MigInfoNew", "Swapoff", "MemInfo", "ReqSpace", "SpaceCheck",
               "Mktemp", "MountRoot"} THEN {0}
    ELSE IF at \in {"MkEtc", "MountProc"} THEN {1}
    ELSE IF at = "MountTmp" THEN {2}
    ELSE IF at = "MountSys" THEN {3}
    ELSE IF at \in {"MountDev", "FallbackTmpfs"} THEN {4}
    ELSE IF at \in {"CopyDev", "RmPts", "MountPts"} THEN {5}
    ELSE IF at = "PrepErr" THEN 0..6
    ELSE {6}

\* C14: until cleanup starts, the mount stack of MigrateInfo is the sequence
\* of the mounts made beneath the tmpfs root so far, in the order they were
\* made: each successful mount is on it when the next step runs, no failed
\* mount is on it (the failed devtmpfs attempt neither), and every entry is
\* the tmpfs root or beneath it.
C14_MountStackTracksMounts ==
    (pc \notin {"Umount", "ReturnErr"} /\ (pc = "Done" => result = "ok")) =>
        /\ migInfo.mounts = kmounts
        /\ Len(migInfo.mounts) \in MountsMadeAt(pc)
        /\ \A i \in 1..Len(migInfo.mounts) :
              /\ migInfo.mounts[i].mountpoint = TakeoverDir \o MountOrder[i]
              /\ StartsWith(migInfo.mounts[i].mountpoint, migInfo.to_dir)
        /\ pc \in {"FallbackTmpfs", "CopyDev", "RmPts"} =>
              \A i \in 1..Len(migInfo.mounts) : migInfo.mounts[i].fs_type # "devtmpfs"

\* C14 witness: the fallback path with all six mounts recorded, the failed
\* devtmpfs attempt not among them
C14_Witness ==
    /\ pc = "MkOldRoot"
    /\ Len(migInfo.mounts) = 6
    /\ migInfo.mounts[5] = [mountpoint |-> <<"TO.XXXXXXXX", "dev">>, fs_type |-> "tmpfs"]
    /\ migInfo.mounts = kmounts

\* C15, the states: the unmount attempts of cleanup, followed backwards, and
\* the mounts still on the stack make up the mount order of prepare, so the
\* mounts are taken last-mounted first; every recorded mount is attempted,
\* whatever the outcome of the ones before it; the directory is removed only
\* after all of them; stage1 returns the Err prepare returned.
C15_CleanupLifoState ==
    LET n == Len(migInfo.mounts) + Len(umounts)
        removals == At("rmdir") \cup At("rmdir_busy") \cup At("rmdir_failed")
        attempts == At("umount") \cup At("umount_failed")
    IN  /\ umounts # <<>> =>
              /\ n <= 6
              /\ pc \in {"Umount", "ReturnErr", "Done"}
              /\ \A i \in 1..Len(migInfo.mounts) :
                    migInfo.mounts[i].mountpoint = TakeoverDir \o MountOrder[i]
              /\ \A i \in 1..Len(umounts) :
                    umounts[i].mountpoint = TakeoverDir \o MountOrder[n + 1 - i]
        /\ Cardinality(attempts) = Len(umounts)
        /\ (pc \in {"ReturnErr", "Done"} /\ At("umount_all") # {}) =>
              /\ migInfo.mounts = <<>>
              /\ {kmounts[i].mountpoint : i \in 1..Len(kmounts)}
                    = {umounts[i].mountpoint : i \in {j \in 1..Len(umounts) : ~umounts[j].ok}}
        /\ removals # {} =>
              /\ Cardinality(removals) = 1
              /\ migInfo.mounts = <<>>
              /\ \A r \in removals, u \in attempts : u < r
        /\ (pc = "Done" /\ At("umount_all") # {}) =>
              /\ prepErr # "none"
              /\ result = prepErr

\* C15: the above in every state, and no step of the cleanup changes the Err
\* stage1 is about to return.
C15_CleanupLifo ==
    /\ []C15_CleanupLifoState
    /\ [][(pc \in {"PrepErr", "Umount", "ReturnErr"}) => (prepErr' = prepErr)]_vars

\* C15 witness: the first unmount (dev/pts) failed on its own account, the
\* five others were attempted after it, and stage1 returned prepare's Err
C15_Witness ==
    /\ pc = "Done"
    /\ Len(umounts) = 6
    /\ ~umounts[1].ok /\ ~umounts[1].busy
    /\ umounts[3].ok
    /\ umounts[6].mountpoint = TakeoverDir
    /\ result = "CopyFailed"

\* C16: a failed devtmpfs mount does not make prepare return; the fallback
\* mounts a tmpfs at dev, then copies /dev/*, then removes dev/pts, and only
\* then is devpts mounted at dev/pts; a failing fallback mount or copy makes
\* prepare return, so nothing after them runs. On either path a prepare that
\* returned Ok left six recorded mounts: the tmpfs root, proc, tmp, sys, dev,
\* dev/pts in this order, one mount at dev (devtmpfs, or tmpfs exactly on the
\* fallback path) and devpts at dev/pts.
C16_DevFallback ==
    LET dev == TakeoverDir \o <<"dev">>
        atDev == {i \in 1..Len(migInfo.mounts) : migInfo.mounts[i].mountpoint = dev}
        types == [i \in 1..Len(migInfo.mounts) |-> migInfo.mounts[i].fs_type]
        copied == \E i \in 1..Len(log) - 1 : log[i] = "cp_dev" /\ log[i + 1] = "rm_pts"
    IN  /\ pc = "FallbackTmpfs" =>
              /\ prepErr = "none"
              /\ atDev = {}
        /\ pc = "CopyDev" => types = <<"tmpfs", "proc", "tmpfs", "sysfs", "tmpfs">>
        /\ pc = "RmPts" =>
              /\ log[Len(log)] = "cp_dev"
              /\ types = <<"tmpfs", "proc", "tmpfs", "sysfs", "tmpfs">>
        /\ (pc \notin {"Umount", "ReturnErr", "Done"} /\ Len(migInfo.mounts) = 6) =>
              /\ migInfo.mounts[6] = [mountpoint |-> dev \o <<"pts">>, fs_type |-> "devpts"]
              /\ types[5] = "tmpfs" => copied
              /\ types[5] = "devtmpfs" => ~Did("cp_dev") /\ ~Did("rm_pts")
        /\ InOkArm =>
              /\ Len(migInfo.mounts) = 6
              /\ \A i \in 1..6 : migInfo.mounts[i].mountpoint = TakeoverDir \o MountOrder[i]
              /\ \/ types = <<"tmpfs", "proc", "tmpfs", "sysfs", "devtmpfs", "devpts">>
                 \/ types = <<"tmpfs", "proc", "tmpfs", "sysfs", "tmpfs", "devpts">>
              /\ types[5] = "tmpfs" <=> copied
              /\ Cardinality(atDev) = 1
              /\ kmounts = migInfo.mounts

\* C16 witness: stage1 returned Ok after a prepare that took the fallback path
C16_Witness ==
    /\ pc = "Done"
    /\ result = "ok"
    /\ Len(migInfo.mounts) = 6
    /\ migInfo.mounts[5].fs_type = "tmpfs"
    /\ migInfo.mounts[6].fs_type = "devpts"
    /\ At("cp_dev") # {} /\ At("rm_pts") # {}

\* C17: the unmount plan holds one entry for each device walked so far that
\* has a parent named like the flash device and is mounted, and nothing else;
\* an entry carries the device's own path, mount point and filesystem type.
\* So does the plan in the written config, for the whole inventory.
C17_PlanExactlyFlashPartitions ==
    LET wanted(among) ==
            {d \in among : /\ devices[d].parent = flashDev
                           /\ devices[d].parent # "none"
                           /\ devices[d].mountpoint # NoPath}
        entry(d) == [dev_name |-> d, mountpoint |-> devices[d].mountpoint,
                     fs_type |-> devices[d].fs_type]
        exact(plan, among) ==
            /\ Len(plan) = Cardinality(wanted(among))
            /\ {plan[i] : i \in 1..Len(plan)} = {entry(d) : d \in wanted(among)}
    IN  /\ exact(umount_parts, visited)
        /\ pc \in {"Reverse", "WriteCfg"} => visited = DOMAIN devices
        /\ CfgWritten => exact(s2cfg.umount_parts, DOMAIN devices)

\* C17 witness: a written plan of one entry, for an inventory that also has a
\* mounted partition of another disk and an unmounted partition of the flash
\* device
C17_Witness ==
    /\ CfgWritten
    /\ Len(s2cfg.umount_parts) = 1
    /\ \E d \in DOMAIN devices :
          devices[d].parent \notin {"none", flashDev} /\ devices[d].mountpoint # NoPath
    /\ \E d \in DOMAIN devices :
          devices[d].parent = flashDev /\ devices[d].mountpoint = NoPath

\* the devices the walk of the unmount plan puts into the plan
Planned(d) ==
    /\ devices[d].parent = flashDev
    /\ devices[d].parent # "none"
    /\ devices[d].mountpoint # NoPath

\* C18 as stated: a turn of the walk puts the new entry immediately before
\* the first existing entry whose mount point is a prefix of the new entry's
\* mount point, and appends it when there is none; the list is reversed once
\* after the walk.
C18_InsertBeforeFirstPrefix ==
    /\ [][(pc = "Plan") =>
            \E d \in visited' \ visited :
               LET new == [dev_name |-> d, mountpoint |-> devices[d].mountpoint,
                           fs_type |-> devices[d].fs_type]
                   hits == {i \in 1..Len(umount_parts) :
                              StartsWith(new.mountpoint, umount_parts[i].mountpoint)}
                   first == CHOOSE i \in hits : \A j \in hits : i <= j
               IN  umount_parts' =
                     IF ~Planned(d) THEN umount_parts
                     ELSE IF hits = {} THEN umount_parts \o <<new>>
                     ELSE SubSeq(umount_parts, 1, first - 1) \o <<new>>
                            \o SubSeq(umount_parts, first, Len(umount_parts))]_vars
    /\ [][(pc = "Reverse") =>
            /\ Len(umount_parts') = Len(umount_parts)
            /\ \A i \in 1..Len(umount_parts) :
                  umount_parts'[i] = umount_parts[Len(umount_parts) + 1 - i]]_vars
    /\ [][(pc \notin {"Plan", "Reverse"}) => (umount_parts' = umount_parts)]_vars

\* C18 as amended: a turn of the walk puts the new entry immediately before
\* the first existing entry whose mount point has the new entry's mount point
\* as a prefix (the first existing entry mounted at or beneath the new one),
\* and appends it when there is none; the list is reversed once after the
\* walk.
C18_InsertBeforeFirstBeneath ==
    /\ [][(pc = "Plan") =>
            \E d \in visited' \ visited :
               LET new == [dev_name |-> d, mountpoint |-> devices[d].mountpoint,
                           fs_type |-> devices[d].fs_type]
                   hits == {i \in 1..Len(umount_parts) :
                              StartsWith(umount_parts[i].mountpoint, new.mountpoint)}
                   first == CHOOSE i \in hits : \A j \in hits : i <= j
               IN  umount_parts' =
                     IF ~Planned(d) THEN umount_parts
                     ELSE IF hits = {} THEN umount_parts \o <<new>>
                     ELSE SubSeq(umount_parts, 1, first - 1) \o <<new>>
                            \o SubSeq(umount_parts, first, Len(umount_parts))]_vars
    /\ [][(pc = "Reverse") =>
            /\ Len(umount_parts') = Len(umount_parts)
            /\ \A i \in 1..Len(umount_parts) :
                  umount_parts'[i] = umount_parts[Len(umount_parts) + 1 - i]]_vars
    /\ [][(pc \notin {"Plan", "Reverse"}) => (umount_parts' = umount_parts)]_vars

\* C18 witness: two entries were appended, neither beneath the other, and
\* the device still to be walked is mounted above the first of them, so it
\* goes in front of it
C18_Witness ==
    /\ pc = "Plan"
    /\ Len(umount_parts) = 2
    /\ ~StartsWith(umount_parts[1].mountpoint, umount_parts[2].mountpoint)
    /\ ~StartsWith(umount_parts[2].mountpoint, umount_parts[1].mountpoint)
    /\ \E d \in DOMAIN devices \ visited :
          /\ Planned(d)
          /\ StartsWith(umount_parts[1].mountpoint, devices[d].mountpoint)

\* C19: while the init bind-mount is in place, the staging area behind it
\* is whole: the six mounts are there, none of them has been unmounted, and
\* the tmpfs root directory exists.
C19_StagingIntactWhileBound ==
    initBound =>
        /\ Len(kmounts) = 6
        /\ \A i \in 1..Len(umounts) : ~umounts[i].ok
        /\ toDirExists

\* C20: swapoff is the first thing prepare does and it is called once; once
\* it has succeeded swap stays off in every later state, whatever prepare
\* and the cleanup go on to do, so stage1 returns with swap off.
C20_SwapStaysOff ==
    LET calls == {"swapoff", "swapoff_failed", "swapoff_skipped"}
    IN  /\ log # <<>> =>
              /\ log[1] \in calls
              /\ \A i \in 2..Len(log) : log[i] \notin calls
        /\ log = <<>> => pc \in {"Start", "MigInfoNew", "Swapoff", "Done"}
        /\ swapOn <=> ~(log # <<>> /\ log[1] = "swapoff")

\* C20 witness: swapoff succeeded, a mount of prepare failed, cleanup ran and
\* stage1 has returned the error, with swap off
C20_Witness ==
    /\ pc = "Done"
    /\ result = "MountFailed"
    /\ At("swapoff") # {}
    /\ At("umount_all") # {}
    /\ ~swapOn

====
